---- MODULE Spec2Model ----
(***************************************************************************)
(* misskey-timeline-watchdog (src/main.go): the startup sequence of main,  *)
(* the Supervisor loop of main, one monitoring Session                     *)
(* (startMonitoringSession) and the Recovery Executor                      *)
(* (executeCommandAndReport), as one sequential state machine.             *)
(*                                                                         *)
(* Strings are sequences of one-character strings.  Time is counted in     *)
(* ticks, Second ticks to the second.  TLC's integers are 32 bits wide, so *)
(* Go's time.Duration (a signed 64-bit count of nanoseconds) is modelled   *)
(* as a signed DurationBits-bit count of ticks with the same               *)
(* two's-complement wrap-around on multiplication.                         *)
(***************************************************************************)
EXTENDS Integers, Sequences, FiniteSets, TLC

(***************************************************************************)
(* Bounds of the model.                                                    *)
(***************************************************************************)
DurationBits == 12 \* width of the modelled time.Duration
MaxDelay == 5      \* latest tick at which the peer acts during one read wait
MaxOverrun == 1    \* ticks by which time.Sleep may overshoot its argument
NumHandles == 2    \* distinct connection identities told apart

(***************************************************************************)
(* Program constants.                                                      *)
(***************************************************************************)
Second == 4                     \* time.Second, in ticks
Minute == 60 * Second           \* time.Minute
DefaultCooldown == 5 * Minute   \* main.go:122
FlushTimeout == 5 * Second      \* main.go:144 (and main.go:82)

DefaultPath == <<"/", "s", "t", "r", "e", "a", "m", "i", "n", "g">>
HttpsPrefix == <<"h", "t", "t", "p", "s", ":", "/", "/">>
WssPrefix == <<"w", "s", "s", ":", "/", "/">>
Slash == <<"/">>

(***************************************************************************)
(* Pure helpers.                                                           *)
(***************************************************************************)
\* int64 multiplication/conversion wrap-around, at the modelled width.
WrapDuration(n) ==
  LET m == 2 ^ DurationBits
      h == 2 ^ (DurationBits - 1)
  IN ((n + h) % m) - h

HasPrefix(s, p) == Len(s) >= Len(p) /\ SubSeq(s, 1, Len(p)) = p
HasSuffix(s, p) == Len(s) >= Len(p) /\ SubSeq(s, Len(s) - Len(p) + 1, Len(s)) = p
\* strings.TrimPrefix / strings.TrimSuffix: remove one occurrence, if present.
TrimPrefix(s, p) == IF HasPrefix(s, p) THEN SubSeq(s, Len(p) + 1, Len(s)) ELSE s
TrimSuffix(s, p) == IF HasSuffix(s, p) THEN SubSeq(s, 1, Len(s) - Len(p)) ELSE s

IsSpace(c) == c \in {" ", "\t", "\n"}
\* strings.Fields: the maximal runs of non-space characters, in order.
RECURSIVE FieldsFrom(_, _, _)
FieldsFrom(s, i, cur) ==
  IF i > Len(s)
  THEN IF cur = <<>> THEN <<>> ELSE <<cur>>
  ELSE IF IsSpace(s[i])
       THEN IF cur = <<>> THEN FieldsFrom(s, i + 1, <<>>)
                          ELSE <<cur>> \o FieldsFrom(s, i + 1, <<>>)
       ELSE FieldsFrom(s, i + 1, Append(cur, s[i]))
\* Variant of Fields: the command string is not tokenised, a non-empty string
\* is taken whole as the program to run.
WholeCommand(s) == IF s = <<>> THEN <<>> ELSE <<s>>

Fields(s) == FieldsFrom(s, 1, <<>>)

\* getTargetURL: [ok, url]; ok = FALSE is the error return.
getTargetURL(c) ==
  IF c.url # <<>>
  THEN [ok |-> TRUE, url |-> c.url]
  ELSE IF c.domain # <<>>
       THEN [ok |-> TRUE,
             url |-> WssPrefix \o TrimSuffix(TrimPrefix(c.domain, HttpsPrefix), Slash)
                       \o DefaultPath]
       ELSE [ok |-> FALSE, url |-> <<>>]

\* main.go:120-123
cooldownOf(c) ==
  IF c.Cooldown <= 0 THEN DefaultCooldown ELSE WrapDuration(c.Cooldown * Second)

\* main.go:167
timeoutDuration(c) == WrapDuration(c.Timeout * Second)

Max(a, b) == IF a >= b THEN a ELSE b

(***************************************************************************)
(* Inputs: the configurations the file may hold.                           *)
(***************************************************************************)
SomeURL == <<"w", "s", "s", ":", "/", "/", "x", "/", "s">>
Targets ==
  { [url |-> <<>>, domain |-> <<>>],
    [url |-> <<>>, domain |-> <<"m">>],
    [url |-> <<>>, domain |-> HttpsPrefix \o <<"m", "/">>],
    [url |-> <<>>, domain |-> <<"h", "t", "t", "p", ":", "/", "/", "m">>],
    [url |-> SomeURL, domain |-> <<"m">>] }
Timeouts == {-1, 0, 1, 2 ^ (DurationBits - 1) \div Second}
Cooldowns == {-1, 0, 1, 2 ^ (DurationBits - 1) \div Second, 2 ^ DurationBits \div Second}
Commands == { <<>>, <<" ", "\t">>, <<"a", " ", "b">> }
DSNs == { <<>>, <<"d">> }

Configs ==
  { [url |-> t.url, domain |-> t.domain, Timeout |-> to, Cooldown |-> cd,
     Command |-> cmd, dsn |-> d] :
      t \in Targets, to \in Timeouts, cd \in Cooldowns, cmd \in Commands, d \in DSNs }

\* The zero value of Config.
ZeroConfig ==
  [url |-> <<>>, domain |-> <<>>, Timeout |-> 0, Cooldown |-> 0,
   Command |-> <<>>, dsn |-> <<>>]

FileStates == {"missing", "unreadable", "malformed", "ok"}

NoErr == [kind |-> "nil", cause |-> "nil"]
Outcomes == {"ConnectFailed", "SubscribeFailed", "DeadlineSetFailed", "ReadFailedOrTimedOut"}
NoRead == [kind |-> "none", at |-> 0]
PeerEvents == [kind : {"frame", "close", "silent"}, at : 0..MaxDelay]
\* A telemetry event: a message or an exception, its level, what it is about,
\* and whether the command's output is attached (scope.SetExtra).
Event(level, kind, about, output) ==
  [level |-> level, kind |-> kind, about |-> about, output |-> output]
\* sentry.CaptureMessage / sentry.CaptureException on the global hub: an event
\* is captured only when the hub has a client (on), otherwise it is dropped.
Capture(on, evs, e) == IF on THEN Append(evs, e) ELSE evs
\* logPrintf (69-75): log.Println, then sentry.CaptureMessage of the same text.
logPrintf(on, evs, about) == Capture(on, evs, Event("info", "message", about, FALSE))

FullCycle == <<"connect", "outcome", "report", "recovery", "flush", "sleep">>
SessionPCs == {"subscribe", "arm", "read"}
LoopPCs == {"dial", "subscribe", "arm", "read", "report", "exec", "flush", "sleep"}

VARIABLES
  pc,               \* control point of the single thread of control
  file,             \* what os.Stat / os.ReadFile find at the config path
  cfg,              \* *Config, once loaded
  sentryOn,         \* sentry.Init succeeded: the global hub has a client
  targetURL,        \* main's targetURL
  cooldownDuration, \* main's cooldownDuration
  exitCode,         \* {} while running, {n} after os.Exit(n)
  conn,             \* startMonitoringSession's c: {} or {handle}
  open,             \* handles dialled and not yet closed
  lastHandle,       \* identity of the most recently dialled connection
  prevConn,         \* handle of the connection closed most recently
  dialed,           \* handle this Session's Dial returned
  deadline,         \* duration added to now by the last SetReadDeadline
  lastRead,         \* what the peer did during the Session's last ReadMessage wait
  heard,            \* the Session has received at least one frame
  err,              \* main's err: the Session's return value
  steps,            \* the steps of the current Supervisor cycle, in order
  execCalls,        \* calls of executeCommandAndReport since the last Dial
  launches,         \* processes started since the last Dial
  lastResult,       \* result of the last executeCommandAndReport
  sinceRecovery,    \* ticks since executeCommandAndReport last returned
  sleepArg,         \* argument of the last time.Sleep
  events,           \* events the telemetry client captured since the last Dial
  flushes,          \* calls of sentry.Flush since the last Dial
  subs,             \* subscription messages this Session has written
  sinceArm          \* ticks since this Session last armed the read deadline

vars ==
  << pc, file, cfg, sentryOn, targetURL, cooldownDuration, exitCode, conn, open,
     lastHandle, prevConn, dialed, deadline, lastRead, heard, err, steps,
     execCalls, launches, lastResult, sinceRecovery, sleepArg,
     events, flushes, subs, sinceArm >>

startupVars == << file, cfg, sentryOn, targetURL, cooldownDuration >>
sessionVars == << conn, open, lastHandle, prevConn, dialed, deadline, lastRead, heard, err >>
recoveryVars == << execCalls, launches, lastResult, sinceRecovery, sleepArg >>
telemetryVars == << events, flushes >>
loopVars == << subs, sinceArm >>

Init ==
  /\ pc = "stat"
  /\ file \in FileStates
  /\ cfg = ZeroConfig
  /\ sentryOn = FALSE
  /\ targetURL = <<>>
  /\ cooldownDuration = 0
  /\ exitCode = {}
  /\ conn = {}
  /\ open = {}
  /\ lastHandle = 0
  /\ prevConn = {}
  /\ dialed = {}
  /\ deadline = 0
  /\ lastRead = NoRead
  /\ heard = FALSE
  /\ err = NoErr
  /\ steps = <<>>
  /\ execCalls = 0
  /\ launches = 0
  /\ lastResult = "none"
  /\ sinceRecovery = 0
  /\ sleepArg = 0
  /\ events = <<>>
  /\ flushes = 0
  /\ subs = 0
  /\ sinceArm = 0

(***************************************************************************)
(* Startup (main, lines 88-125).                                           *)
(***************************************************************************)
\* os.Exit(1), reached through log.Fatalf or logFatalf.
Exit1 ==
  /\ pc' = "exited"
  /\ exitCode' = {1}

\* main.go:91-94: a missing file is replaced by the template and the process exits.
StatConfig ==
  /\ pc = "stat"
  /\ IF file = "missing"
     THEN /\ file' = "ok"
          /\ Exit1
     ELSE /\ pc' = "load"
          /\ UNCHANGED << file, exitCode >>
  /\ UNCHANGED << cfg, sentryOn, targetURL, cooldownDuration >>
  /\ UNCHANGED << sessionVars, steps, recoveryVars, telemetryVars, loopVars >>

\* main.go:96-99 with loadConfig (45-56).
LoadConfig ==
  /\ pc = "load"
  /\ IF file = "ok"
     THEN /\ \E c \in Configs : cfg' = c
          /\ pc' = "sentry"
          /\ UNCHANGED exitCode
     ELSE /\ Exit1
          /\ UNCHANGED cfg
  /\ UNCHANGED << file, sentryOn, targetURL, cooldownDuration >>
  /\ UNCHANGED << sessionVars, steps, recoveryVars, telemetryVars, loopVars >>

\* Variant of SentryInit: a failed sentry.Init is fatal (log.Fatalf).
SentryInitFatal ==
  /\ pc = "sentry"
  /\ IF cfg.dsn # <<>>
     THEN \/ /\ sentryOn' = TRUE
             /\ events' = logPrintf(TRUE, events, "sentry-initialized")
             /\ pc' = "resolve"
             /\ UNCHANGED exitCode
          \/ /\ Exit1
             /\ UNCHANGED << sentryOn, events >>
     ELSE /\ pc' = "resolve"
          /\ UNCHANGED << sentryOn, events, exitCode >>
  /\ UNCHANGED << file, cfg, targetURL, cooldownDuration, flushes >>
  /\ UNCHANGED << sessionVars, steps, recoveryVars, loopVars >>

\* main.go:101-113: sentry.Init is attempted only with a DSN; its failure is logged.
SentryInit ==
  /\ pc = "sentry"
  /\ IF cfg.dsn # <<>>
     THEN \E ok \in BOOLEAN :
            /\ sentryOn' = ok
            /\ events' = logPrintf(ok, events, "sentry-initialized")
     ELSE UNCHANGED << sentryOn, events >>
  /\ pc' = "resolve"
  /\ UNCHANGED << file, cfg, targetURL, cooldownDuration, exitCode, flushes >>
  /\ UNCHANGED << sessionVars, steps, recoveryVars, loopVars >>

\* logFatalf (77-85): log, CaptureMessage, Flush(5s), os.Exit(1).
logFatalf(about) ==
  /\ events' = Capture(sentryOn, events, Event("info", "message", about, FALSE))
  /\ flushes' = flushes + 1
  /\ Exit1

\* main.go:115-118
ResolveTarget ==
  /\ pc = "resolve"
  /\ LET r == getTargetURL(cfg)
     IN IF r.ok
        THEN /\ targetURL' = r.url
             /\ pc' = "cooldown"
             /\ UNCHANGED << exitCode, telemetryVars >>
        ELSE /\ logFatalf("fatal-configuration-error")
             /\ UNCHANGED targetURL
  /\ UNCHANGED << file, cfg, sentryOn, cooldownDuration >>
  /\ UNCHANGED << sessionVars, steps, recoveryVars, loopVars >>

\* main.go:120-125
SetCooldown ==
  /\ pc = "cooldown"
  /\ cooldownDuration' = cooldownOf(cfg)
  /\ events' = logPrintf(sentryOn, events, "configuration-loaded")
  /\ pc' = "dial"
  /\ UNCHANGED << file, cfg, sentryOn, targetURL, exitCode, flushes >>
  /\ UNCHANGED << sessionVars, steps, recoveryVars, loopVars >>

(***************************************************************************)
(* One Session: startMonitoringSession (lines 152-179).                    *)
(***************************************************************************)
\* Variant of FreshHandle: Dial hands back the connection it returned last time.
ReusedHandle(last) == last

\* websocket.DefaultDialer.Dial returns a connection nobody else holds.
FreshHandle(last) == (last + 1) % NumHandles

\* Variant of DeferredClose: the return path does not close c.
LeakedClose(c, o) == o

\* defer c.Close() (line 159): the handles open once c is closed.
DeferredClose(c, o) == o \ c

\* Variant of ReturnErr: the error is returned with the connection still open.
ReturnErrStillOpen(e) ==
  /\ err' = e
  /\ open' = open
  /\ prevConn' = conn
  /\ conn' = {}
  /\ pc' = "report"
  /\ steps' = Append(steps, "outcome")

\* A return of startMonitoringSession after line 159: the deferred Close runs and
\* main's err receives the wrapped error.
ReturnErr(e) ==
  /\ err' = e
  /\ open' = DeferredClose(conn, open)
  /\ prevConn' = conn
  /\ conn' = {}
  /\ pc' = "report"
  /\ steps' = Append(steps, "outcome")

\* main.go:129, 153-158
Dial ==
  /\ pc = "dial"
  /\ execCalls' = 0
  /\ launches' = 0
  /\ sinceRecovery' = 0
  /\ lastRead' = NoRead
  /\ heard' = FALSE
  /\ lastResult' = "none"
  /\ events' = logPrintf(sentryOn, <<>>, "connecting")
  /\ flushes' = 0
  /\ subs' = 0
  /\ sinceArm' = 0
  /\ \/ /\ conn' = {FreshHandle(lastHandle)}
        /\ open' = open \cup {FreshHandle(lastHandle)}
        /\ lastHandle' = FreshHandle(lastHandle)
        /\ dialed' = {FreshHandle(lastHandle)}
        /\ err' = NoErr
        /\ steps' = <<"connect">>
        /\ pc' = "subscribe"
        /\ UNCHANGED prevConn
     \/ /\ \E cause \in {"refused", "handshake"} :
             err' = [kind |-> "ConnectFailed", cause |-> cause]
        /\ steps' = <<"connect", "outcome">>
        /\ pc' = "report"
        /\ dialed' = {}
        /\ UNCHANGED << conn, open, lastHandle, prevConn >>
  /\ UNCHANGED << startupVars, exitCode, deadline, sleepArg >>

\* Variant of Subscribe: a failed write is tried again on the same connection.
SubscribeRetrying ==
  /\ pc = "subscribe"
  /\ subs' = subs + 1
  /\ \/ /\ pc' = "arm"
        /\ events' = logPrintf(sentryOn, events, "monitoring-started")
     \/ /\ pc' = "subscribe"
        /\ UNCHANGED events
  /\ UNCHANGED << conn, open, prevConn, err, steps >>
  /\ UNCHANGED << startupVars, exitCode, lastHandle, dialed, deadline, lastRead, heard >>
  /\ UNCHANGED << recoveryVars, flushes, sinceArm >>

\* main.go:161-165
Subscribe ==
  /\ pc = "subscribe"
  /\ subs' = subs + 1
  /\ \/ /\ pc' = "arm"
        /\ events' = logPrintf(sentryOn, events, "monitoring-started")
        /\ UNCHANGED << conn, open, prevConn, err, steps >>
     \/ /\ ReturnErr([kind |-> "SubscribeFailed", cause |-> "write"])
        /\ UNCHANGED events
  /\ UNCHANGED << startupVars, exitCode, lastHandle, dialed, deadline, lastRead, heard >>
  /\ UNCHANGED << recoveryVars, flushes, sinceArm >>

\* Variant of SetReadDeadline: the deadline is armed once, before the first read,
\* and left in force for the reads that follow.
SetReadDeadlineOnce ==
  /\ pc = "arm"
  /\ IF heard
     THEN /\ pc' = "read"
          /\ UNCHANGED << deadline, sinceArm, lastRead, conn, open, prevConn, err, steps >>
     ELSE /\ deadline' = timeoutDuration(cfg)
          /\ sinceArm' = 0
          /\ lastRead' = NoRead
          /\ pc' = "read"
          /\ UNCHANGED << conn, open, prevConn, err, steps >>
  /\ UNCHANGED << startupVars, exitCode, lastHandle, dialed, heard >>
  /\ UNCHANGED << recoveryVars, telemetryVars, subs >>

\* main.go:167-172
SetReadDeadline ==
  /\ pc = "arm"
  /\ deadline' = timeoutDuration(cfg)
  /\ \/ /\ pc' = "read"
        /\ sinceArm' = 0
        /\ UNCHANGED << conn, open, prevConn, err, steps >>
     \/ /\ ReturnErr([kind |-> "DeadlineSetFailed", cause |-> "setdeadline"])
        /\ UNCHANGED sinceArm
  /\ lastRead' = NoRead
  /\ UNCHANGED << startupVars, exitCode, lastHandle, dialed, heard >>
  /\ UNCHANGED << recoveryVars, telemetryVars, subs >>

\* Variant of FrameBeforeDeadline: the deadline is not enforced, a late frame
\* is still received.
FrameWithoutDeadline(ev, dl) == ev.kind = "frame"

\* The wait of ReadMessage under a deadline dl ticks ahead: a frame that comes
\* before the deadline is received.
FrameBeforeDeadline(ev, dl) == ev.kind = "frame" /\ ev.at < dl
\* A frame at the very tick of the deadline may fall on either side.
FrameOnDeadline(ev, dl) == ev.kind = "frame" /\ ev.at = dl /\ dl > 0

\* Variant of readError: a close by the peer ends the Session without an error.
readErrorNilOnClose(ev, dl) ==
  IF ev.kind = "close" /\ ev.at < dl
  THEN NoErr
  ELSE [kind |-> "ReadFailedOrTimedOut", cause |-> "timeout"]

\* main.go:175-177: what ReadMessage's error is wrapped into.
readError(ev, dl) ==
  [kind |-> "ReadFailedOrTimedOut",
   cause |-> IF ev.kind = "close" /\ ev.at < dl THEN "closed" ELSE "timeout"]

\* main.go:174-177: the wait ends with a frame, or with an error when the peer
\* closes or the deadline passes.
ReadMessage ==
  /\ pc = "read"
  /\ \E ev \in PeerEvents :
       /\ lastRead' = ev
       /\ \/ /\ FrameBeforeDeadline(ev, deadline) \/ FrameOnDeadline(ev, deadline)
             /\ heard' = TRUE
             /\ sinceArm' = sinceArm + ev.at
             /\ pc' = "arm"
             /\ UNCHANGED << conn, open, prevConn, err, steps >>
          \/ /\ ~FrameBeforeDeadline(ev, deadline)
             /\ ReturnErr(readError(ev, deadline))
             /\ sinceArm' = sinceArm + (IF ev.kind = "close" /\ ev.at < deadline
                                        THEN ev.at ELSE Max(deadline, 0))
             /\ UNCHANGED heard
  /\ UNCHANGED << startupVars, exitCode, lastHandle, dialed, deadline >>
  /\ UNCHANGED << recoveryVars, telemetryVars, subs >>

(***************************************************************************)
(* The rest of a Supervisor cycle (main, lines 131-148).                   *)
(***************************************************************************)
\* main.go:132-136: the events the report of the Session's error leaves: the
\* message of logPrintf, then the exception captured at error level.
reportOutcome(on, evs) ==
  Capture(on, logPrintf(on, evs, "session-ended"),
          Event("error", "exception", "session-ended", FALSE))

\* Variant of ReportOutcome: the outcome is reported with logFatalf, which exits.
ReportOutcomeFatal ==
  /\ pc = "report"
  /\ logFatalf("session-ended")
  /\ UNCHANGED << startupVars, sessionVars, steps, recoveryVars, loopVars >>

\* Variant of ReportOutcome: no recovery when the connect itself failed.
ReportOutcomeSkipsRecovery ==
  /\ pc = "report"
  /\ steps' = Append(steps, "report")
  /\ pc' = IF err.kind = "ConnectFailed" THEN "flush" ELSE "exec"
  /\ lastRead' = NoRead
  /\ heard' = FALSE
  /\ sinceArm' = 0
  /\ events' = reportOutcome(sentryOn, events)
  /\ UNCHANGED << conn, open, lastHandle, prevConn, dialed, deadline, err >>
  /\ UNCHANGED << startupVars, exitCode, recoveryVars, flushes, subs >>

\* main.go:132-136: logPrintf and CaptureException at error level.
ReportOutcome ==
  /\ pc = "report"
  /\ steps' = Append(steps, "report")
  /\ pc' = "exec"
  /\ lastRead' = NoRead
  /\ heard' = FALSE
  /\ sinceArm' = 0
  /\ events' = reportOutcome(sentryOn, events)
  /\ UNCHANGED << conn, open, lastHandle, prevConn, dialed, deadline, err >>
  /\ UNCHANGED << startupVars, exitCode, recoveryVars, flushes, subs >>

\* Variant of reportCommand: a failure is captured outside any scope, at the
\* default level and without the output.
reportCommandUnscoped(on, evs, r) ==
  CASE r = "empty" -> logPrintf(on, evs, "empty-command")
    [] r = "ok" -> Capture(on, evs, Event("info", "message", "command-succeeded", TRUE))
    [] OTHER -> Capture(on, evs, Event("error", "exception", "command-failed", FALSE))

\* executeCommandAndReport, lines 183-209: what is captured for each result.
reportCommand(on, evs, r) ==
  CASE r = "empty" -> logPrintf(on, evs, "empty-command")
    [] r = "ok" -> Capture(on, evs, Event("info", "message", "command-succeeded", TRUE))
    [] OTHER -> Capture(on, evs, Event("fatal", "exception", "command-failed", TRUE))

\* main.go:139-140 with executeCommandAndReport (181-210).
executeCommandAndReport ==
  /\ pc = "exec"
  /\ execCalls' = execCalls + 1
  /\ IF Len(Fields(cfg.Command)) = 0
     THEN /\ lastResult' = "empty"
          /\ UNCHANGED launches
     ELSE /\ launches' = launches + 1
          /\ \E r \in {"launchfail", "exitfail", "ok"} : lastResult' = r
  /\ events' = reportCommand(sentryOn,
                              logPrintf(sentryOn, events, "attempting-command"),
                              lastResult')
  /\ sinceRecovery' = 0
  /\ steps' = Append(steps, "recovery")
  /\ pc' = "flush"
  /\ UNCHANGED << startupVars, exitCode, sessionVars, sleepArg, flushes, loopVars >>

\* How long sentry.Flush(5s) may take: it returns at once without a client.
FlushTimes == IF sentryOn THEN {0, 1, FlushTimeout} ELSE {0}

\* Variant of FlushTelemetry: the loop goes round after the flush, without sleeping.
FlushTelemetryThenRetry ==
  /\ pc = "flush"
  /\ \E d \in FlushTimes : sinceRecovery' = sinceRecovery + d
  /\ events' = logPrintf(sentryOn, events, "waiting")
  /\ flushes' = flushes + 1
  /\ steps' = Append(steps, "flush")
  /\ pc' = "dial"
  /\ UNCHANGED << startupVars, exitCode, sessionVars, loopVars >>
  /\ UNCHANGED << execCalls, launches, lastResult, sleepArg >>

\* main.go:143-144
FlushTelemetry ==
  /\ pc = "flush"
  /\ \E d \in FlushTimes : sinceRecovery' = sinceRecovery + d
  /\ events' = logPrintf(sentryOn, events, "waiting")
  /\ flushes' = flushes + 1
  /\ steps' = Append(steps, "flush")
  /\ pc' = "sleep"
  /\ UNCHANGED << startupVars, exitCode, sessionVars, loopVars >>
  /\ UNCHANGED << execCalls, launches, lastResult, sleepArg >>

\* Variant of Sleep: no cooldown after a recovery command that succeeded.
SleepUnlessRecovered ==
  /\ pc = "sleep"
  /\ sleepArg' = IF lastResult = "ok" THEN 0 ELSE cooldownDuration
  /\ \E o \in 0..MaxOverrun :
       sinceRecovery' = sinceRecovery
                          + (IF lastResult = "ok" THEN 0 ELSE Max(cooldownDuration, 0)) + o
  /\ events' = logPrintf(sentryOn, events, "cooldown-finished")
  /\ steps' = Append(steps, "sleep")
  /\ pc' = "dial"
  /\ UNCHANGED << startupVars, exitCode, sessionVars, flushes, loopVars >>
  /\ UNCHANGED << execCalls, launches, lastResult >>

\* main.go:146-148: time.Sleep returns at once for a duration <= 0.
Sleep ==
  /\ pc = "sleep"
  /\ sleepArg' = cooldownDuration
  /\ \E o \in 0..MaxOverrun :
       sinceRecovery' = sinceRecovery + Max(cooldownDuration, 0) + o
  /\ events' = logPrintf(sentryOn, events, "cooldown-finished")
  /\ steps' = Append(steps, "sleep")
  /\ pc' = "dial"
  /\ UNCHANGED << startupVars, exitCode, sessionVars, flushes, loopVars >>
  /\ UNCHANGED << execCalls, launches, lastResult >>

Next ==
  \/ StatConfig
  \/ LoadConfig
  \/ SentryInit
  \/ ResolveTarget
  \/ SetCooldown
  \/ Dial
  \/ Subscribe
  \/ SetReadDeadline
  \/ ReadMessage
  \/ ReportOutcome
  \/ executeCommandAndReport
  \/ FlushTelemetry
  \/ Sleep

Spec == Init /\ [][Next]_vars

\* The single thread of control keeps running: every blocking call returns.
FairSpec == Spec /\ WF_vars(Next)

(***************************************************************************)
(* Properties.                                                             *)
(***************************************************************************)
IsPrefix(p, q) == Len(p) <= Len(q) /\ SubSeq(q, 1, Len(p)) = p
Retrying == pc = "dial" /\ steps # <<>>

\* C1: in every Supervisor cycle the steps come in the order connect attempt,
\* Session outcome, error-level report, Recovery Executor, bounded flush,
\* cooldown sleep, none skipped, and the next connect attempt starts only after
\* all of them.
C1_CycleOrder ==
  /\ IsPrefix(steps, FullCycle)
  /\ pc \in SessionPCs => steps = SubSeq(FullCycle, 1, 1)
  /\ pc = "report" => steps = SubSeq(FullCycle, 1, 2)
  /\ pc = "exec" => steps = SubSeq(FullCycle, 1, 3)
  /\ pc = "flush" => steps = SubSeq(FullCycle, 1, 4)
  /\ pc = "sleep" => steps = SubSeq(FullCycle, 1, 5)
  /\ pc = "dial" => steps \in {<<>>, FullCycle}

\* A whole cycle has run and the next connect attempt is about to start.
C1_Witness == pc = "dial" /\ steps = FullCycle

\* C2: once startMonitoringSession has returned, with any of the four outcomes,
\* no connection the Session opened is still open.
C2_ClosedOnReturn ==
  pc \notin SessionPCs => open = {} /\ conn = {}

\* A Session that had opened a connection has ended in a read failure.
C2_Witness ==
  /\ pc = "report"
  /\ dialed # {}
  /\ err.kind = "ReadFailedOrTimedOut"
  /\ open = {}

\* C3: at most one connection is open, and the connection a Session subscribes
\* on and reads from is the one its own Dial returned, open, and not the
\* connection of an earlier cycle.
C3_OneFreshConnection ==
  /\ Cardinality(open) <= 1
  /\ pc \in SessionPCs =>
       /\ Cardinality(conn) = 1
       /\ conn = dialed
       /\ conn \subseteq open
       /\ conn \cap prevConn = {}

\* A later Session is reading on its own connection after an earlier one was closed.
C3_Witness == pc = "read" /\ prevConn # {} /\ conn = dialed /\ conn # prevConn

\* C4: whatever the recovery result, the Supervisor sleeps for the effective
\* cooldown of the configuration, and the next connect attempt starts no
\* earlier than that cooldown after the Recovery Executor returned.
C4_CooldownUnconditional ==
  Retrying =>
    /\ lastResult \in {"empty", "launchfail", "exitfail", "ok"}
    /\ sleepArg = cooldownOf(cfg)
    /\ sleepArg = cooldownDuration
    /\ sinceRecovery >= sleepArg

\* The next connect attempt is due after a recovery command that succeeded and
\* a cooldown of one second.
C4_Witness ==
  /\ Retrying
  /\ lastResult = "ok"
  /\ cfg.Cooldown = 1
  /\ sinceRecovery >= Second

C6_NeverSuccess ==
  /\ pc \in SessionPCs => err = NoErr
  /\ pc \in {"report", "exec", "flush", "sleep"} \/ Retrying =>
       /\ err.kind \in Outcomes
       /\ err.cause # "nil"
  /\ pc = "report" /\ dialed = {} => err.kind = "ConnectFailed"
  /\ pc = "report" /\ lastRead # NoRead =>
       /\ err.kind = "ReadFailedOrTimedOut"
       /\ err.cause \in {"timeout", "closed"}
  /\ pc = "report" /\ heard => err.kind \in {"DeadlineSetFailed", "ReadFailedOrTimedOut"}

\* The peer closed the connection during a read and the Session returned.
C6_Witness ==
  /\ pc = "report"
  /\ lastRead.kind = "close"
  /\ err = [kind |-> "ReadFailedOrTimedOut", cause |-> "closed"]

\* C7: with a configured timeout T > 0, a read during which no frame comes
\* within T ends the Session with ReadFailedOrTimedOut, and a read during which
\* a frame comes before the armed deadline returns to the head of the read
\* loop, any number of times.
C7_IdleTimeout ==
  [][ (pc = "read" /\ pc' # "read" /\ cfg.Timeout > 0) =>
        /\ ~(lastRead'.kind = "frame" /\ lastRead'.at <= cfg.Timeout * Second) =>
             /\ pc' = "report"
             /\ err'.kind = "ReadFailedOrTimedOut"
        /\ (lastRead'.kind = "frame" /\ lastRead'.at < deadline) =>
             /\ pc' = "arm"
             /\ err' = NoErr ]_vars

\* After at least one frame, a silent peer has timed the Session out.
C7_Witness ==
  /\ pc = "report"
  /\ cfg.Timeout = 1
  /\ heard
  /\ lastRead.kind = "silent"
  /\ err = [kind |-> "ReadFailedOrTimedOut", cause |-> "timeout"]

\* C8: the duration added to now when the read deadline is armed is > 0, for
\* every configured timeout.
C8_IdleTimeoutPositive == pc = "read" => deadline > 0

\* C9: the effective cooldown is 5 minutes for a configured C <= 0, exactly C
\* seconds for C > 0, and never zero or negative.
C9_EffectiveCooldown ==
  pc \in LoopPCs =>
    /\ cfg.Cooldown <= 0 => cooldownDuration = 5 * Minute
    /\ cfg.Cooldown > 0 => cooldownDuration = cfg.Cooldown * Second
    /\ cooldownDuration > 0

\* C10, as amended: the process never leaves the Supervisor loop, and every
\* Session end is followed by a new connect attempt.
C10_NoExitAndRetry ==
  /\ [][(pc \in LoopPCs) => (pc' \in LoopPCs /\ exitCode' = {})]_vars
  /\ (pc = "report") ~> (pc = "dial")

\* C10, as stated: moreover every fair run has infinitely many connect attempts
\* once startup has succeeded.
C10_InfinitelyManyConnects ==
  /\ [][(pc \in LoopPCs) => (pc' \in LoopPCs /\ exitCode' = {})]_vars
  /\ (pc = "report") ~> (pc = "dial")
  /\ []<>(pc \notin LoopPCs \/ pc = "dial")

\* A cycle whose recovery command could not be launched has reached the next
\* connect attempt.
C10_Witness == Retrying /\ lastResult = "launchfail" /\ exitCode = {}

\* The events captured since the last Dial that are about a given matter.
EventsAbout(about) == { i \in 1..Len(events) : events[i].about = about }
AfterRecovery == pc \in {"flush", "sleep"} \/ Retrying

\* C11: a recovery command that fails (non-zero exit or launch failure) leaves
\* exactly one fatal-level exception event with the output attached and no
\* success event; one that succeeds leaves exactly one info-level event with the
\* output attached and no failure event; either way executeCommandAndReport
\* returns into the loop, which goes on to the flush, the sleep and the next Dial.
C11_RecoveryFailureReported ==
  /\ lastResult # "none" => AfterRecovery /\ exitCode = {}
  /\ AfterRecovery /\ sentryOn /\ lastResult \in {"launchfail", "exitfail"} =>
       /\ Cardinality(EventsAbout("command-failed")) = 1
       /\ \A i \in EventsAbout("command-failed") :
            events[i] = [level |-> "fatal", kind |-> "exception",
                         about |-> "command-failed", output |-> TRUE]
       /\ EventsAbout("command-succeeded") = {}
  /\ AfterRecovery /\ sentryOn /\ lastResult = "ok" =>
       /\ Cardinality(EventsAbout("command-succeeded")) = 1
       /\ \A i \in EventsAbout("command-succeeded") :
            events[i].level = "info" /\ events[i].output
       /\ EventsAbout("command-failed") = {}
  /\ ~sentryOn => events = <<>>

\* With a working sink, a command that exited non-zero was reported as fatal and
\* the cycle has reached the next connect attempt.
C11_Witness ==
  /\ Retrying
  /\ sentryOn
  /\ lastResult = "exitfail"
  /\ \E i \in 1..Len(events) : events[i].level = "fatal" /\ events[i].output
  /\ sleepArg = cooldownDuration

\* The configured command is empty or made of white space only.
BlankCommand == \A i \in 1..Len(cfg.Command) : cfg.Command[i] \in {" ", "\t", "\n"}

\* C12: with an empty or whitespace-only command string the Recovery Executor
\* starts no process, leaves the 'empty command' message as its only record and
\* returns; the cycle goes through the flush and the same cooldown sleep as for
\* any other command.
C12_EmptyCommand ==
  /\ AfterRecovery =>
       /\ BlankCommand <=> lastResult = "empty"
       /\ BlankCommand <=> launches = 0
  /\ AfterRecovery /\ lastResult = "empty" =>
       /\ execCalls = 1
       /\ exitCode = {}
       /\ EventsAbout("command-failed") = {}
       /\ EventsAbout("command-succeeded") = {}
       /\ sentryOn => Cardinality(EventsAbout("empty-command")) = 1
  /\ Retrying /\ lastResult = "empty" =>
       /\ steps = FullCycle
       /\ flushes = 1
       /\ sleepArg = cooldownDuration
       /\ sinceRecovery >= cooldownDuration

\* A whitespace-only command has been passed over and the cooldown has run.
C12_Witness ==
  /\ Retrying
  /\ cfg.Command = <<" ", "\t">>
  /\ lastResult = "empty"
  /\ launches = 0
  /\ sleepArg = cooldownDuration

\* C13: whenever startup ends the process (configuration file missing,
\* unreadable or malformed, or no target address), the exit status is non-zero,
\* the failure has been handed to the telemetry client and sentry.Flush has been
\* awaited, and no connection was attempted and no recovery command run.
C13_StartupFatalReported ==
  pc = "exited" =>
    /\ exitCode = {1}
    /\ flushes = 1
    /\ sentryOn => EventsAbout("fatal-configuration-error") # {}
    /\ steps = <<>>
    /\ open = {}
    /\ execCalls = 0
    /\ launches = 0

\* C14: once the Supervisor has reported a Session's outcome, a working sink
\* holds exactly one event about that failure.
C14_OutcomeReportedOnce ==
  (pc \in {"exec", "flush", "sleep"} \/ Retrying) /\ sentryOn =>
    Cardinality(EventsAbout("session-ended")) = 1

\* C15: a sink that is not configured or fails to initialise leaves no client,
\* is only logged locally (no event is captured) and never ends the process;
\* whatever the state of the sink, a Supervisor cycle is the same sequence of
\* steps with one recovery run and the configured cooldown, and sentry.Flush
\* holds the loop up for at most its 5 second window (not at all without a
\* client).
C15_SinkFailureHarmless ==
  /\ [](/\ cfg.dsn = <<>> => ~sentryOn
        /\ ~sentryOn => events = <<>>
        /\ pc = "sleep" => sinceRecovery <= 5 * Second
        /\ pc = "sleep" /\ ~sentryOn => sinceRecovery = 0
        /\ Retrying =>
             /\ steps = <<"connect", "outcome", "report", "recovery", "flush", "sleep">>
             /\ execCalls = 1
             /\ flushes = 1
             /\ sleepArg = cooldownDuration
             /\ exitCode = {})
  /\ [][(pc = "sentry") => (pc' = "resolve" /\ exitCode' = {})]_vars
  /\ [][(pc \in LoopPCs) => (pc' \in LoopPCs /\ sentryOn' = sentryOn)]_vars

\* sentry.Init failed on a configured DSN, and a whole cycle has run all the same.
C15_Witness ==
  /\ Retrying
  /\ cfg.dsn # <<>>
  /\ ~sentryOn
  /\ events = <<>>
  /\ steps = FullCycle

\* The domain without a leading scheme prefix "<scheme>://", if it has one.
SchemeEnds(d) ==
  { i \in 1..Len(d) - 2 : SubSeq(d, i, i + 2) = <<":", "/", "/">> }
WithoutScheme(d) ==
  IF SchemeEnds(d) = {}
  THEN d
  ELSE LET i == CHOOSE k \in SchemeEnds(d) : \A j \in SchemeEnds(d) : k <= j
       IN SubSeq(d, i + 3, Len(d))

\* C16: once the target is resolved it is the configured url if there is one,
\* and otherwise "wss://" + d + "/streaming" where d is the domain with any
\* leading scheme prefix and a trailing slash stripped; with neither url nor
\* domain the resolution fails and the process exits.
C16_TargetResolution ==
  /\ pc \in {"cooldown"} \cup LoopPCs =>
       /\ cfg.url # <<>> \/ cfg.domain # <<>>
       /\ cfg.url # <<>> => targetURL = cfg.url
       /\ cfg.url = <<>> =>
            targetURL = <<"w", "s", "s", ":", "/", "/">>
                          \o TrimSuffix(WithoutScheme(cfg.domain), <<"/">>)
                          \o <<"/", "s", "t", "r", "e", "a", "m", "i", "n", "g">>
  /\ pc = "exited" /\ file = "ok" => cfg.url = <<>> /\ cfg.domain = <<>>

\* The position of a control point in the life of a Session: Connecting,
\* Subscribed (connected, the subscription not yet written), Listening, Ended.
SessionRank(p) ==
  CASE p = "dial" -> 0
    [] p = "subscribe" -> 1
    [] p \in {"arm", "read"} -> 2
    [] OTHER -> 3

\* C17: a Session only moves forward: the subscription is written once, on the
\* connection a successful Dial returned and before any read; a read is
\* attempted only after one successful write of it; a failed connect ends the
\* Session with no write and no read; and Dial is entered only from the
\* Supervisor's sleep, never from inside a Session.
C17_SessionForwardOnly ==
  /\ [](/\ pc = "subscribe" => subs = 0 /\ dialed # {} /\ ~heard /\ lastRead = NoRead
        /\ pc \in {"arm", "read"} => subs = 1 /\ dialed # {}
        /\ pc = "report" /\ err.kind = "ConnectFailed" =>
             subs = 0 /\ dialed = {} /\ ~heard /\ lastRead = NoRead
        /\ pc = "report" /\ err.kind = "SubscribeFailed" =>
             subs = 1 /\ dialed # {} /\ ~heard /\ lastRead = NoRead
        /\ pc = "report" /\ err.kind \in {"DeadlineSetFailed", "ReadFailedOrTimedOut"} =>
             subs = 1 /\ dialed # {}
        /\ pc \in {"exec", "flush", "sleep"} => subs <= 1)
  /\ [][(pc \in {"dial", "subscribe", "arm", "read"}) =>
          (/\ SessionRank(pc') >= SessionRank(pc)
           /\ pc' # "dial"
           /\ subs' <= 1)]_vars
  /\ [][(pc' = "dial" /\ pc # "dial") => pc \in {"cooldown", "sleep"}]_vars

\* A Session that connected, subscribed once, received a frame and then ended.
C17_Witness ==
  /\ pc = "report"
  /\ subs = 1
  /\ dialed # {}
  /\ heard
  /\ err.kind = "ReadFailedOrTimedOut"
  /\ steps = <<"connect", "outcome">>

\* C18: a read starts only from a step that has just armed the deadline, set to
\* the idle timeout counted from that moment (no time of an earlier iteration
\* has run on it); when arming fails the Session ends with DeadlineSetFailed
\* and the read of that iteration is not attempted.
C18_DeadlineRearmed ==
  /\ [](/\ pc = "read" => sinceArm = 0 /\ deadline = timeoutDuration(cfg)
        /\ pc = "report" /\ err.kind = "DeadlineSetFailed" => lastRead = NoRead)
  /\ [][(pc' = "read") =>
          (pc = "arm" /\ deadline' = timeoutDuration(cfg) /\ sinceArm' = 0)]_vars
  /\ [][(pc = "arm") =>
          (\/ pc' = "read" /\ err' = err
           \/ pc' = "report" /\ err'.kind = "DeadlineSetFailed"
                /\ lastRead' = NoRead)]_vars

\* After a frame took some of the previous window, the deadline was armed
\* afresh for the next read.
C18_Witness ==
  /\ pc = "read"
  /\ heard
  /\ sinceArm = 0
  /\ deadline = timeoutDuration(cfg)
  /\ deadline > 1

\* C19: from the moment the Session's error is back in main, through the report
\* of the Outcome, the run of the recovery command, the flush and the cooldown
\* sleep, no connection is open; the steps that report, execute and sleep
\* neither find nor leave one open.
C19_NoConnectionDuringRecovery ==
  /\ [](/\ pc \in {"report", "exec", "flush", "sleep"} => open = {}
        /\ lastResult # "none" => open = {}
        /\ Len(steps) >= 2 => open = {})
  /\ [][(pc \in {"report", "exec", "flush", "sleep"}) => (open = {} /\ open' = {})]_vars

\* The command was launched and the cooldown is about to start, after a Session
\* that had a connection.
C19_Witness ==
  /\ pc = "sleep"
  /\ dialed # {}
  /\ launches = 1
  /\ open = {}
  /\ prevConn # {}

====
